---- MODULE Spec2Model ----
(***************************************************************************)
(* Model of quant_trader: the Portfolio ledger (portfolio.py) and the      *)
(* RiskManager (risk.py).                                                  *)
(*                                                                         *)
(* Numbers: prices, quantities and money are integers; every quotient the  *)
(* code computes is kept as an exact rational [n, d] (d > 0, lowest terms; *)
(* d = 0 is float('inf')).  Float rounding is not modelled.                *)
(* Exceptions: an action models the whole call, including the state a      *)
(* raised exception leaves behind; `last` records the call, what it        *)
(* returned and what it raised.                                            *)
(***************************************************************************)
EXTENDS Integers, Sequences, FiniteSets, TLC

VARIABLES
    initial_capital,    \* Portfolio.initial_capital
    cash,               \* Portfolio.cash
    positions,          \* Portfolio.positions: open Position objects, in order
    closed_positions,   \* Portfolio.closed_positions
    trade_history,      \* Portfolio.trade_history: trade records
    constructed,        \* history: every Position as it was constructed, by id
    max_position_size,  \* RiskManager configuration
    max_portfolio_heat,
    max_drawdown,
    max_daily_loss,
    current_heat,       \* RiskManager state
    daily_pnl,
    peak_equity,
    last                \* history: the last call, its arguments, result, exception

ledger == <<initial_capital, cash, positions, closed_positions, trade_history,
            constructed>>
limits == <<max_position_size, max_portfolio_heat, max_drawdown, max_daily_loss>>
risk_state == <<current_heat, daily_pnl, peak_equity>>
vars == <<ledger, limits, risk_state, last>>

----------------------------------------------------------------------------
(* Bounds and input sets *)

MaxPositions == 2

InitialCapital == 100000

Symbols == {"SPY", "QQQ"}
Prices == {0, 100}
NoGreeks == "greeks@entry"
MarketGreeks == "greeks@mark"
EntryDate == "2024-01-02"
ExitDate == "2024-02-01"
ExpirationDate == "2024-03-15"

None == "None"
NoError == "none"

----------------------------------------------------------------------------
(* Arithmetic *)

Abs(x) == IF x < 0 THEN -x ELSE x

RECURSIVE GCD(_, _)
GCD(a, b) == IF b = 0 THEN a ELSE GCD(b, a % b)

\* n / d for d # 0, in lowest terms with a positive denominator
Rat(n, d) ==
    LET g == GCD(Abs(n), Abs(d))
        s == IF d < 0 THEN -1 ELSE 1
    IN  [n |-> (s * n) \div g, d |-> Abs(d) \div g]

RatInt(k) == [n |-> k, d |-> 1]
Inf == [n |-> 1, d |-> 0]
RatAdd(a, b) == Rat(a.n * b.d + b.n * a.d, a.d * b.d)
RatSub(a, b) == Rat(a.n * b.d - b.n * a.d, a.d * b.d)
RatMul(a, b) == Rat(a.n * b.n, a.d * b.d)
RatDiv(a, b) == Rat(a.n * b.d, a.d * b.n)
RatAbs(a) == [n |-> Abs(a.n), d |-> a.d]
RatGT(a, b) == a.n * b.d > b.n * a.d
RatLT(a, b) == a.n * b.d < b.n * a.d

Max(a, b) == IF a >= b THEN a ELSE b
Min(a, b) == IF a <= b THEN a ELSE b
\* Python's int() of a quotient: truncation toward zero
Trunc(r) == IF r.n >= 0 THEN r.n \div r.d ELSE -((-r.n) \div r.d)

RECURSIVE SumSeq(_)
SumSeq(s) == IF s = <<>> THEN 0 ELSE Head(s) + SumSeq(Tail(s))

Indices(s) == 1..Len(s)

----------------------------------------------------------------------------
(* Position *)

Position(id, symbol, entry_price, quantity, position_type, max_loss, max_profit) ==
    [id |-> id,
     symbol |-> symbol,
     strategy_type |-> "vertical_spread",
     entry_date |-> EntryDate,
     entry_price |-> entry_price,
     quantity |-> quantity,
     strikes |-> <<100, 105>>,
     expiration |-> ExpirationDate,
     position_type |-> position_type,
     greeks |-> NoGreeks,
     max_loss |-> max_loss,
     max_profit |-> max_profit,
     current_value |-> 0,
     pnl |-> 0]

\* the Position objects a caller opens (id is the object's identity)
NewPositions(id) ==
    { Position(id, "SPY", 50, 2, "long", 100, 300),
      Position(id, "QQQ", 50, 1, "short", 150, 50),
      Position(id, "QQQ", 0, 1, "long", 0, 100) }

\* market_data: symbol -> record; `price` and `greeks` are optional keys,
\* held as an empty or one-element set
MarketRecords ==
    { [price |-> {0}, greeks |-> {}],
      [price |-> {100}, greeks |-> {MarketGreeks}],
      [price |-> {}, greeks |-> {MarketGreeks}] }

MarketData ==
    UNION { [S -> MarketRecords] : S \in SUBSET Symbols }

The(S) == CHOOSE x \in S : TRUE

----------------------------------------------------------------------------
(* Portfolio *)

total_value ==
    cash + SumSeq([i \in Indices(positions) |-> positions[i].current_value])

add_position(position) ==
    /\ positions' = Append(positions, position)
    /\ cash' = cash - position.entry_price * position.quantity
    /\ constructed' = Append(constructed, position)
    /\ last' = [op |-> "add_position", args |-> <<position.id>>,
                ret |-> None, raised |-> NoError]
    /\ UNCHANGED <<initial_capital, closed_positions, trade_history>>
    /\ UNCHANGED <<limits, risk_state>>

\* list[idx] and list.pop(idx): Python accepts -len..len-1
index_ok(list, idx) == -Len(list) <= idx /\ idx < Len(list)
list_at(list, idx) == IF idx < 0 THEN idx + Len(list) + 1 ELSE idx + 1
\* mutant of list_pop: the closed position is never taken out of the list
list_pop_keeps(list, idx) == list

list_pop(list, idx) ==
    LET k == list_at(list, idx)
    IN  SubSeq(list, 1, k - 1) \o SubSeq(list, k + 1, Len(list))

\* mutant of close_pnl: the sign flip of a short position is forgotten
close_pnl_unsigned(position, exit_price) ==
    (exit_price - position.entry_price) * position.quantity

close_pnl(position, exit_price) ==
    LET pnl == (exit_price - position.entry_price) * position.quantity
    IN  IF position.position_type = "short" THEN -pnl ELSE pnl

trade_record(position, exit_price, exit_date, pnl) ==
    [symbol |-> position.symbol,
     strategy |-> position.strategy_type,
     entry_date |-> position.entry_date,
     exit_date |-> exit_date,
     entry_price |-> position.entry_price,
     exit_price |-> exit_price,
     pnl |-> pnl,
     pnl_percent |-> RatMul(Rat(pnl, position.entry_price * position.quantity),
                            RatInt(100))]

close_position(position_idx, exit_price, exit_date) ==
    LET args == <<position_idx, exit_price, exit_date>> IN
    IF ~index_ok(positions, position_idx)
    THEN /\ last' = [op |-> "close_position", args |-> args,
                     ret |-> None, raised |-> "IndexError"]
         /\ UNCHANGED <<ledger, limits, risk_state>>
    ELSE LET position == positions[list_at(positions, position_idx)]
             pnl == close_pnl(position, exit_price)
             closed == [position EXCEPT !.pnl = pnl]
         IN  /\ cash' = cash + exit_price * position.quantity + pnl
             /\ closed_positions' = Append(closed_positions, closed)
             /\ positions' = list_pop(positions, position_idx)
             /\ IF position.entry_price * position.quantity = 0
                THEN /\ trade_history' = trade_history
                     /\ last' = [op |-> "close_position", args |-> args,
                                 ret |-> None, raised |-> "ZeroDivisionError"]
                ELSE /\ trade_history' = Append(trade_history,
                            trade_record(position, exit_price, exit_date, pnl))
                     /\ last' = [op |-> "close_position", args |-> args,
                                 ret |-> pnl, raised |-> NoError]
             /\ UNCHANGED <<initial_capital, constructed, limits, risk_state>>

\* mutant of mark: the new pnl is also written to max_profit
mark_overwrites_max_profit(position, data) ==
    LET price == The(data.price)
        greeks == IF data.greeks = {} THEN position.greeks ELSE The(data.greeks)
        pnl == (price - position.entry_price) * position.quantity
    IN  [position EXCEPT
            !.current_value = price,
            !.greeks = greeks,
            !.pnl = IF position.position_type = "short" THEN -pnl ELSE pnl,
            !.max_profit = IF position.position_type = "short" THEN -pnl ELSE pnl]

\* lines 119-126: the body of the loop for one position, given the record
\* market_data holds for its symbol
mark(position, data) ==
    LET price == The(data.price)
        greeks == IF data.greeks = {} THEN position.greeks ELSE The(data.greeks)
        pnl == (price - position.entry_price) * position.quantity
    IN  [position EXCEPT
            !.current_value = price,
            !.greeks = greeks,
            !.pnl = IF position.position_type = "short" THEN -pnl ELSE pnl]

\* mutant of lookup: a position with no quote of its own takes any quote
lookup_any(market_data, position) ==
    IF position.symbol \in DOMAIN market_data
    THEN {market_data[position.symbol]}
    ELSE { market_data[The(DOMAIN market_data)] : k \in DOMAIN market_data }

\* line 119: the record market_data holds for the position, if any
lookup(market_data, position) ==
    IF position.symbol \in DOMAIN market_data
    THEN {market_data[position.symbol]}
    ELSE {}

\* the for loop from position i on; market_data[symbol]['price'] raises
\* KeyError when the record has no price, which ends the loop
RECURSIVE update_loop(_, _, _)
update_loop(list, i, market_data) ==
    IF i > Len(list)
    THEN [positions |-> list, raised |-> NoError]
    ELSE LET found == lookup(market_data, list[i]) IN
         IF found = {}
         THEN update_loop(list, i + 1, market_data)
         ELSE IF The(found).price = {}
              THEN [positions |-> list, raised |-> "KeyError"]
              ELSE update_loop([list EXCEPT ![i] = mark(list[i], The(found))],
                               i + 1, market_data)

update_positions(market_data) ==
    LET done == update_loop(positions, 1, market_data) IN
    /\ positions' = done.positions
    /\ last' = [op |-> "update_positions", args |-> <<DOMAIN market_data>>,
                ret |-> None, raised |-> done.raised]
    /\ UNCHANGED <<initial_capital, cash, closed_positions, trade_history,
                   constructed, limits, risk_state>>

----------------------------------------------------------------------------
(* Portfolio.get_metrics *)

Self ==
    [initial_capital |-> initial_capital, cash |-> cash, positions |-> positions,
     closed_positions |-> closed_positions, trade_history |-> trade_history]

IsWin(pnl) == pnl > 0
IsLoss(pnl) == pnl < 0

ZeroMetrics ==
    [total_trades |-> 0, win_rate |-> RatInt(0), avg_win |-> RatInt(0),
     avg_loss |-> RatInt(0), profit_factor |-> RatInt(0)]

\* lines 156-165, for the non-empty list `trades` of closed pnls
metrics_of(trades) ==
    LET wins == SelectSeq(trades, IsWin)
        losses == SelectSeq(trades, IsLoss)
    IN  [total_trades |-> Len(trades),
         win_rate |-> RatMul(Rat(Len(wins), Len(trades)), RatInt(100)),
         avg_win |-> IF wins # <<>> THEN Rat(SumSeq(wins), Len(wins))
                     ELSE RatInt(0),
         avg_loss |-> IF losses # <<>>
                      THEN RatAbs(Rat(SumSeq(losses), Len(losses)))
                      ELSE RatInt(0),
         profit_factor |-> IF losses # <<>>
                           THEN Rat(SumSeq(wins), Abs(SumSeq(losses)))
                           ELSE Inf]

Pnls(list) == [i \in Indices(list) |-> list[i].pnl]

\* mutant of get_metrics: open positions are counted as trades too
get_metrics_counts_open(self) ==
    IF Len(self.closed_positions) = 0
    THEN ZeroMetrics
    ELSE metrics_of(Pnls(self.closed_positions \o self.positions))

get_metrics(self) ==
    IF Len(self.closed_positions) = 0
    THEN ZeroMetrics
    ELSE metrics_of(Pnls(self.closed_positions))

GetMetrics ==
    /\ last' = [op |-> "get_metrics", args |-> <<>>,
                ret |-> get_metrics(Self), raised |-> NoError]
    /\ UNCHANGED <<ledger, limits, risk_state>>

----------------------------------------------------------------------------
(* RiskManager *)

Call(op, args, ret, raised) == [op |-> op, args |-> args, ret |-> ret, raised |-> raised]

SizeReason == "Position size exceeds maximum risk per trade"
HeatReason == "Would exceed maximum portfolio heat"
DailyLossReason == "Daily loss limit reached"
AllowedReason == "Position allowed"

\* mutant of position_allowed: the heat check runs before the size check
position_allowed_heat_first(position_risk, capital) ==
    LET position_risk_pct == Rat(position_risk, capital)
        new_total_heat == RatAdd(current_heat, position_risk_pct)
        daily_loss_pct == IF daily_pnl < 0 THEN Rat(Abs(daily_pnl), capital)
                          ELSE RatInt(0)
    IN  IF RatGT(new_total_heat, max_portfolio_heat)
        THEN <<FALSE, HeatReason, new_total_heat>>
        ELSE IF RatGT(position_risk_pct, max_position_size)
        THEN <<FALSE, SizeReason, position_risk_pct>>
        ELSE IF RatGT(daily_loss_pct, max_daily_loss)
        THEN <<FALSE, DailyLossReason, daily_loss_pct>>
        ELSE <<TRUE, AllowedReason, RatInt(0)>>

\* the gate without the portfolio-heat test of lines 106-111
position_allowed_no_heat(position_risk, capital) ==
    LET position_risk_pct == Rat(position_risk, capital)
        daily_loss_pct == IF daily_pnl < 0 THEN Rat(Abs(daily_pnl), capital)
                          ELSE RatInt(0)
    IN  IF RatGT(position_risk_pct, max_position_size)
        THEN <<FALSE, SizeReason, position_risk_pct>>
        ELSE IF RatGT(daily_loss_pct, max_daily_loss)
        THEN <<FALSE, DailyLossReason, daily_loss_pct>>
        ELSE <<TRUE, AllowedReason, RatInt(0)>>

\* lines 99-119 for capital # 0: (allowed, reason); the figures the reason
\* quotes are kept unrounded
position_allowed(position_risk, capital) ==
    LET position_risk_pct == Rat(position_risk, capital)
        new_total_heat == RatAdd(current_heat, position_risk_pct)
        daily_loss_pct == IF daily_pnl < 0 THEN Rat(Abs(daily_pnl), capital)
                          ELSE RatInt(0)
    IN  IF RatGT(position_risk_pct, max_position_size)
        THEN <<FALSE, SizeReason, position_risk_pct>>
        ELSE IF RatGT(new_total_heat, max_portfolio_heat)
        THEN <<FALSE, HeatReason, new_total_heat>>
        ELSE IF RatGT(daily_loss_pct, max_daily_loss)
        THEN <<FALSE, DailyLossReason, daily_loss_pct>>
        ELSE <<TRUE, AllowedReason, RatInt(0)>>

\* mutant of check_position_allowed: an accepted position is added to
\* current_heat by the check itself
check_position_allowed_commits(position_risk, capital) ==
    LET result == IF capital = 0 THEN <<FALSE>>
                  ELSE position_allowed(position_risk, capital)
    IN  /\ last' = IF capital = 0
                   THEN Call("check_position_allowed", <<position_risk, capital>>,
                             None, "ZeroDivisionError")
                   ELSE Call("check_position_allowed", <<position_risk, capital>>,
                             result, NoError)
        /\ current_heat' = IF result[1]
                           THEN RatAdd(current_heat, Rat(position_risk, capital))
                           ELSE current_heat
        /\ UNCHANGED <<ledger, limits, daily_pnl, peak_equity>>

check_position_allowed(position_risk, capital) ==
    /\ last' = IF capital = 0
               THEN Call("check_position_allowed", <<position_risk, capital>>,
                         None, "ZeroDivisionError")
               ELSE Call("check_position_allowed", <<position_risk, capital>>,
                         position_allowed(position_risk, capital), NoError)
    /\ UNCHANGED <<ledger, limits, risk_state>>

\* update_risk_metrics without the comparison of line 139: peak_equity follows
\* the equity down
update_risk_metrics_tracks_equity(current_equity, new_daily_pnl, open_position_risk) ==
    LET args == <<current_equity, new_daily_pnl, open_position_risk>> IN
    /\ daily_pnl' = new_daily_pnl
    /\ IF current_equity = 0
       THEN /\ UNCHANGED <<current_heat, peak_equity>>
            /\ last' = Call("update_risk_metrics", args, None, "ZeroDivisionError")
       ELSE /\ current_heat' = Rat(open_position_risk, current_equity)
            /\ peak_equity' = current_equity
            /\ last' = Call("update_risk_metrics", args, None, NoError)
    /\ UNCHANGED <<ledger, limits>>

\* line 135 runs before the division of line 136: with current_equity = 0
\* daily_pnl is already set when ZeroDivisionError is raised
update_risk_metrics(current_equity, new_daily_pnl, open_position_risk) ==
    LET args == <<current_equity, new_daily_pnl, open_position_risk>> IN
    /\ daily_pnl' = new_daily_pnl
    /\ IF current_equity = 0
       THEN /\ UNCHANGED <<current_heat, peak_equity>>
            /\ last' = Call("update_risk_metrics", args, None, "ZeroDivisionError")
       ELSE /\ current_heat' = Rat(open_position_risk, current_equity)
            /\ peak_equity' = IF current_equity > peak_equity THEN current_equity
                              ELSE peak_equity
            /\ last' = Call("update_risk_metrics", args, None, NoError)
    /\ UNCHANGED <<ledger, limits>>

DrawdownReason == "Maximum drawdown exceeded"
DailyLossBreakerReason == "Daily loss limit exceeded"
NoBreakerReason == "No circuit breakers triggered"

\* the breaker with >= for > at line 155: it trips at a drawdown of exactly
\* max_drawdown
circuit_breaker_at_limit(current_equity) ==
    LET drawdown == Rat(peak_equity - current_equity, peak_equity)
        daily_loss_pct == RatAbs(Rat(daily_pnl, peak_equity))
    IN  IF peak_equity > 0 /\ ~RatGT(max_drawdown, drawdown)
        THEN <<TRUE, DrawdownReason, drawdown>>
        ELSE IF /\ peak_equity > 0
                /\ daily_pnl < 0
                /\ RatGT(daily_loss_pct, max_daily_loss)
        THEN <<TRUE, DailyLossBreakerReason, daily_loss_pct>>
        ELSE <<FALSE, NoBreakerReason, RatInt(0)>>

\* the breaker with its two tests in the other order
circuit_breaker_daily_first(current_equity) ==
    LET drawdown == Rat(peak_equity - current_equity, peak_equity)
        daily_loss_pct == RatAbs(Rat(daily_pnl, peak_equity))
    IN  IF /\ peak_equity > 0
           /\ daily_pnl < 0
           /\ RatGT(daily_loss_pct, max_daily_loss)
        THEN <<TRUE, DailyLossBreakerReason, daily_loss_pct>>
        ELSE IF peak_equity > 0 /\ RatGT(drawdown, max_drawdown)
        THEN <<TRUE, DrawdownReason, drawdown>>
        ELSE <<FALSE, NoBreakerReason, RatInt(0)>>

\* lines 152-164: (triggered, reason)
circuit_breaker(current_equity) ==
    LET drawdown == Rat(peak_equity - current_equity, peak_equity)
        daily_loss_pct == RatAbs(Rat(daily_pnl, peak_equity))
    IN  IF peak_equity > 0 /\ RatGT(drawdown, max_drawdown)
        THEN <<TRUE, DrawdownReason, drawdown>>
        ELSE IF /\ peak_equity > 0
                /\ daily_pnl < 0
                /\ RatGT(daily_loss_pct, max_daily_loss)
        THEN <<TRUE, DailyLossBreakerReason, daily_loss_pct>>
        ELSE <<FALSE, NoBreakerReason, RatInt(0)>>

check_circuit_breaker(current_equity) ==
    /\ last' = Call("check_circuit_breaker", <<current_equity>>,
                    circuit_breaker(current_equity), NoError)
    /\ UNCHANGED <<ledger, limits, risk_state>>

FixedRisk == "fixed_risk"
Kelly == "kelly_criterion"
FixedFractional == "fixed_fractional"
Returned(value) == [ret |-> value, raised |-> NoError]
Raised(error) == [ret |-> None, raised |-> error]

\* fixed_risk sizing without the max(1, ...) of line 70
position_size_unfloored(capital, entry_price, stop_loss, method) ==
    LET risk_amount == RatMul(RatInt(capital), max_position_size)
        risk_per_contract == Abs(entry_price - stop_loss)
    IN  IF method = FixedRisk
        THEN IF risk_per_contract = 0 THEN Returned(0)
             ELSE Returned(Trunc(RatDiv(risk_amount, RatInt(risk_per_contract))))
        ELSE IF entry_price = 0 THEN Raised("ZeroDivisionError")
             ELSE Returned(Trunc(RatDiv(risk_amount, RatInt(entry_price))))

\* fixed_risk sizing that rounds the quotient up to the next contract
position_size_rounds_up(capital, entry_price, stop_loss, method) ==
    LET risk_amount == RatMul(RatInt(capital), max_position_size)
        risk_per_contract == Abs(entry_price - stop_loss)
    IN  IF method = FixedRisk
        THEN IF risk_per_contract = 0 THEN Returned(0)
             ELSE Returned(Max(1, Trunc(RatDiv(risk_amount,
                                               RatInt(risk_per_contract))) + 1))
        ELSE IF entry_price = 0 THEN Raised("ZeroDivisionError")
             ELSE Returned(Trunc(RatDiv(risk_amount, RatInt(entry_price))))

\* lines 62-80: the kelly_criterion branch and the else branch compute the
\* same quotient, which divides by entry_price
position_size(capital, entry_price, stop_loss, method) ==
    LET risk_amount == RatMul(RatInt(capital), max_position_size)
        risk_per_contract == Abs(entry_price - stop_loss)
    IN  IF method = FixedRisk
        THEN IF risk_per_contract = 0 THEN Returned(0)
             ELSE Returned(Max(1, Trunc(RatDiv(risk_amount,
                                               RatInt(risk_per_contract)))))
        ELSE IF entry_price = 0 THEN Raised("ZeroDivisionError")
             ELSE Returned(Trunc(RatDiv(risk_amount, RatInt(entry_price))))

calculate_position_size(capital, entry_price, stop_loss, method) ==
    LET result == position_size(capital, entry_price, stop_loss, method) IN
    /\ last' = Call("calculate_position_size",
                    <<capital, entry_price, stop_loss, method>>,
                    result.ret, result.raised)
    /\ UNCHANGED <<ledger, limits, risk_state>>

----------------------------------------------------------------------------
(* Statistics engine *)

RatMin(a, b) == IF RatLT(b, a) THEN b ELSE a
RatMax(a, b) == IF RatGT(b, a) THEN b ELSE a
KellyCap == Rat(25, 100)

\* lines 216-224; float division by b = 0.0 raises ZeroDivisionError
kelly(win_rate, avg_win, avg_loss, fraction) ==
    IF avg_loss = 0 THEN Returned(RatInt(0))
    ELSE LET b == Rat(avg_win, avg_loss)
             p == win_rate
             q == RatSub(RatInt(1), p)
             kelly == RatDiv(RatSub(RatMul(p, b), q), b)
         IN  IF b.n = 0 THEN Raised("ZeroDivisionError")
             ELSE Returned(RatMax(RatInt(0),
                                  RatMin(RatMul(kelly, fraction), KellyCap)))

kelly_criterion(win_rate, avg_win, avg_loss, fraction) ==
    LET result == kelly(win_rate, avg_win, avg_loss, fraction) IN
    /\ last' = Call("kelly_criterion", <<win_rate, avg_win, avg_loss, fraction>>,
                    result.ret, result.raised)
    /\ UNCHANGED <<ledger, limits, risk_state>>

\* float64 results: NaN, +-inf, the literal 0.0, or the finite quotient
\* sqrt(252) * mean / sqrt(variance), kept by its two rational parts
NaN == [kind |-> "nan"]
Infinity(sign) == [kind |-> "inf", sign |-> sign]
Zero == [kind |-> "zero"]
Quotient(mean, variance) == [kind |-> "value", mean |-> mean, variance |-> variance]

RECURSIVE RatSum(_)
RatSum(xs) == IF xs = <<>> THEN RatInt(0) ELSE RatAdd(Head(xs), RatSum(Tail(xs)))

\* Series.mean(): NaN for an empty series
series_mean(xs) == RatDiv(RatSum(xs), RatInt(Len(xs)))
\* the square of Series.std() (ddof = 1), for two or more observations; std()
\* of fewer is NaN
series_variance(xs) ==
    LET m == series_mean(xs)
        squares == [i \in Indices(xs) |-> RatMul(RatSub(xs[i], m), RatSub(xs[i], m))]
    IN  RatDiv(RatSum(squares), RatInt(Len(xs) - 1))
std_is_nan(xs) == Len(xs) < 2

\* returns - risk_free_rate / 252
excess_returns(returns, risk_free_rate) ==
    [i \in Indices(returns) |-> RatSub(RatInt(returns[i]), Rat(risk_free_rate, 252))]

\* float64 mean / std with std = 0.0: no exception, inf or NaN by the sign
divide_by_zero(mean) ==
    IF mean.n > 0 THEN Infinity(1) ELSE IF mean.n < 0 THEN Infinity(-1) ELSE NaN

\* portfolio.py lines 228-229
sharpe_ratio(returns, risk_free_rate) ==
    LET excess == excess_returns(returns, risk_free_rate) IN
    IF std_is_nan(excess) THEN NaN
    ELSE IF series_variance(excess).n = 0 THEN divide_by_zero(series_mean(excess))
    ELSE Quotient(series_mean(excess), series_variance(excess))

calculate_sharpe_ratio(returns, risk_free_rate) ==
    /\ last' = Call("calculate_sharpe_ratio", <<returns, risk_free_rate>>,
                    sharpe_ratio(returns, risk_free_rate), NoError)
    /\ UNCHANGED <<ledger, limits, risk_state>>

IsDownside(x) == x.n < 0

\* portfolio.py lines 243-250: NaN == 0 is False, so a NaN downside deviation
\* passes the guard of line 247
sortino_ratio(returns, risk_free_rate) ==
    LET excess == excess_returns(returns, risk_free_rate)
        downside_returns == SelectSeq(excess, IsDownside)
    IN  IF std_is_nan(downside_returns) THEN NaN
        ELSE IF series_variance(downside_returns).n = 0 THEN Zero
        ELSE Quotient(series_mean(excess), series_variance(downside_returns))

calculate_sortino_ratio(returns, risk_free_rate) ==
    /\ last' = Call("calculate_sortino_ratio", <<returns, risk_free_rate>>,
                    sortino_ratio(returns, risk_free_rate), NoError)
    /\ UNCHANGED <<ledger, limits, risk_state>>

\* np.cumsum
cumsum(xs) == [i \in Indices(xs) |-> SumSeq(SubSeq(xs, 1, i))]

\* a simulation that records the first point of the equity path instead of
\* the last
simulation_result_first_point(returns, draws) ==
    LET simulated == [s \in Indices(draws) |->
                         [k \in Indices(draws[s]) |-> returns[draws[s][k]]]]
        final_returns == [s \in Indices(draws) |-> cumsum(simulated[s])[1]]
    IN  [simulated |-> simulated,
         final_returns |-> final_returns,
         mean_return |-> Rat(SumSeq(final_returns), Len(final_returns))]

\* backtest.py lines 201-212: draws[s][k] is the index np.random.choice picked
\* for draw k of simulation s; final_returns is equity[-1] of each path and
\* mean_return its np.mean. simulated and final_returns are the function's
\* locals, kept in the result for the claims; the remaining keys (median, std,
\* percentiles, drawdowns) are further aggregates of the same paths.
simulation_result(returns, draws) ==
    LET simulated == [s \in Indices(draws) |->
                         [k \in Indices(draws[s]) |-> returns[draws[s][k]]]]
        final_returns == [s \in Indices(draws) |->
                             cumsum(simulated[s])[Len(simulated[s])]]
    IN  [simulated |-> simulated,
         final_returns |-> final_returns,
         mean_return |-> Rat(SumSeq(final_returns), Len(final_returns))]

\* n_trades is an empty set for None, else a one-element set. With no draws
\* equity[-1] raises IndexError; drawing from an empty history raises
\* ValueError in np.random.choice.
monte_carlo_simulation(trades, n_simulations, n_trades) ==
    LET n == IF n_trades = {} THEN Len(trades) ELSE The(n_trades)
        returns == [i \in Indices(trades) |-> trades[i].pnl]
        args == <<trades, n_simulations, n_trades>>
    IN  /\ IF n = 0
           THEN last' = Call("monte_carlo_simulation", args, None, "IndexError")
           ELSE IF returns = <<>>
           THEN last' = Call("monte_carlo_simulation", args, None, "ValueError")
           ELSE \E draws \in [1..n_simulations -> [1..n -> Indices(returns)]] :
                   last' = Call("monte_carlo_simulation", args,
                                simulation_result(returns, draws), NoError)
        /\ UNCHANGED <<ledger, limits, risk_state>>

----------------------------------------------------------------------------
(* Specifications *)

\* RiskManager.__init__ defaults
DefaultLimits ==
    /\ max_position_size = Rat(2, 100)
    /\ max_portfolio_heat = Rat(10, 100)
    /\ max_drawdown = Rat(20, 100)
    /\ max_daily_loss = Rat(5, 100)

Init ==
    /\ initial_capital = InitialCapital
    /\ cash = InitialCapital
    /\ positions = <<>>
    /\ closed_positions = <<>>
    /\ trade_history = <<>>
    /\ constructed = <<>>
    /\ DefaultLimits
    /\ current_heat = RatInt(0)
    /\ daily_pnl = 0
    /\ peak_equity = 0
    /\ last = [op |-> "__init__", args |-> <<>>, ret |-> None, raised |-> NoError]

\* every index of the open sequence, Python's negative ones, and the first
\* index out of range on either side
CloseIndices == -(Len(positions) + 1) .. Len(positions)

\* the ledger under any sequence of opens, closes and marks
Next ==
    \/ /\ Len(constructed) < MaxPositions
       /\ \E position \in NewPositions(Len(constructed) + 1) : add_position(position)
    \/ \E idx \in CloseIndices, exit_price \in Prices :
          close_position(idx, exit_price, ExitDate)
    \/ \E market_data \in MarketData : update_positions(market_data)

Spec == Init /\ [][Next]_vars

\* the ledger of a caller that trades one contract of SPY at 100 and asks for
\* the metrics: realized pnls are -50, 0, 100 and 200
MaxTrades == 3
MetricsPositions(id) == { Position(id, "SPY", 100, 1, "long", 100, 200) }
MetricsExitPrices == {50, 100, 200, 300}
MetricsQuote == [s \in {"SPY"} |-> [price |-> {200}, greeks |-> {}]]

NextMetrics ==
    \/ /\ Len(constructed) < MaxTrades
       /\ \E position \in MetricsPositions(Len(constructed) + 1) :
             add_position(position)
    \/ \E idx \in 0 .. Len(positions) - 1, exit_price \in MetricsExitPrices :
          close_position(idx, exit_price, ExitDate)
    \/ update_positions(MetricsQuote)
    \/ GetMetrics

SpecMetrics == Init /\ [][NextMetrics]_vars

\* the RiskManager under any sequence of checks and updates
Capitals == {-100, 0, 50, 100}
PositionRisks == {0, 1, 2, 3, 9}
Equities == {-50, 0, 50, 79, 80, 100}
DailyPnls == {-6, -5, 0, 4}
OpenRisks == {0, 8, 9, 10}

NextRisk ==
    \/ \E position_risk \in PositionRisks, capital \in Capitals :
          check_position_allowed(position_risk, capital)
    \/ \E current_equity \in Equities, pnl \in DailyPnls, open_risk \in OpenRisks :
          update_risk_metrics(current_equity, pnl, open_risk)
    \/ \E current_equity \in Equities : check_circuit_breaker(current_equity)

SpecRisk == Init /\ [][NextRisk]_vars

\* a caller that sizes a trade and then asks the gate about the risk of
\* the size it was given: contracts * |entry_price - stop_loss|
SizingCapitals == {-100, 0, 40, 100, 250, 1000}
SizingPrices == {0, 1, 3, 5}
SizingMethods == {FixedRisk, Kelly, FixedFractional}
Sized == last.op = "calculate_position_size" /\ last.raised = NoError
SizedRisk == last.ret * Abs(last.args[2] - last.args[3])

NextSizing ==
    \/ \E capital \in SizingCapitals, entry_price \in SizingPrices,
          stop_loss \in SizingPrices, method \in SizingMethods :
          calculate_position_size(capital, entry_price, stop_loss, method)
    \/ /\ Sized
       /\ check_position_allowed(SizedRisk, last.args[1])

SpecSizing == Init /\ [][NextSizing]_vars

\* the stateless statistics functions on small arguments
WinRates == {Rat(0, 1), Rat(1, 2), Rat(3, 5), Rat(1, 1)}
AvgWins == {0, 50, 100, 200}
AvgLosses == {0, 50, 100}
Fractions == {Rat(-1, 1), Rat(1, 4), Rat(1, 1)}

\* return series of up to MaxReturns observations; the annual risk-free rate
\* 126 makes the daily rate 1/2
MaxReturns == 3
ReturnValues == {-1, 0, 1}
ReturnSeries == UNION { [1..n -> ReturnValues] : n \in 0..MaxReturns }
RiskFreeRates == {0, 126}

NextStats ==
    \/ \E win_rate \in WinRates, avg_win \in AvgWins, avg_loss \in AvgLosses,
          fraction \in Fractions :
          kelly_criterion(win_rate, avg_win, avg_loss, fraction)
    \/ \E returns \in ReturnSeries, risk_free_rate \in RiskFreeRates :
          calculate_sharpe_ratio(returns, risk_free_rate)
    \/ \E returns \in ReturnSeries, risk_free_rate \in RiskFreeRates :
          calculate_sortino_ratio(returns, risk_free_rate)

SpecStats == Init /\ [][NextStats]_vars

\* one Monte Carlo run per behaviour, over trade histories of up to two
\* trades
MaxSimulations == 2
MaxDraws == 2
TradePnls == {-50, 100}
Trade(pnl) == [pnl |-> pnl]
TradeHistories ==
    {<<>>} \cup { <<Trade(x)>> : x \in TradePnls }
           \cup { <<Trade(x), Trade(y)>> : x, y \in TradePnls }
NTrades == {{}} \cup { {k} : k \in 0..MaxDraws }

NextMonteCarlo ==
    /\ last.op = "__init__"
    /\ \E trades \in TradeHistories, n_simulations \in 1..MaxSimulations,
          n_trades \in NTrades :
          monte_carlo_simulation(trades, n_simulations, n_trades)

SpecMonteCarlo == Init /\ [][NextMonteCarlo]_vars

\* a caller that gates every new position against the portfolio's initial
\* capital, opens it only when allowed, and reports the book's total risk
\* (the sum of max_loss) right after each open
MaxBook == 6
ProtocolRisks == {0, 1000, 2000, 3000}
ProtocolPnls == {-6000, 0, 4000}
BookRisk == SumSeq([i \in Indices(positions) |-> positions[i].max_loss])
GatedPosition(id, risk) == Position(id, "SPY", 50, 1, "long", risk, 100)

NextProtocol ==
    \/ /\ last.op # "add_position"
       /\ \E position_risk \in ProtocolRisks :
             check_position_allowed(position_risk, initial_capital)
    \/ /\ last.op = "check_position_allowed"
       /\ last.ret[1]
       /\ Len(constructed) < MaxBook
       /\ add_position(GatedPosition(Len(constructed) + 1, last.args[1]))
    \/ /\ last.op = "add_position"
       /\ \E pnl \in ProtocolPnls :
             update_risk_metrics(initial_capital, pnl, BookRisk)

SpecProtocol == Init /\ [][NextProtocol]_vars

----------------------------------------------------------------------------
(* Vocabulary of the ledger claims *)

IsCall(op) == last'.op = op
ValidIndices == 0 .. Len(positions) - 1
Signed(position, amount) ==
    IF position.position_type = "short" THEN -amount ELSE amount
\* (price - entry_price) * quantity, negated for a short position
PnlAt(position, price) ==
    Signed(position, (price - position.entry_price) * position.quantity)
Ids(list) == { list[i].id : i \in Indices(list) }
Occurrences(list, id) == Cardinality({ i \in Indices(list) : list[i].id = id })
SameExcept(p, q, fields) ==
    /\ DOMAIN p = DOMAIN q
    /\ \A f \in DOMAIN p \ fields : p[f] = q[f]

----------------------------------------------------------------------------

\* C1 (as claimed): total_value = initial_capital + the realized pnl of all
\* closed positions + the pnl field of all open positions.
C1_TotalValueIdentity ==
    total_value =
        initial_capital
        + SumSeq([i \in Indices(closed_positions) |-> closed_positions[i].pnl])
        + SumSeq([i \in Indices(positions) |-> positions[i].pnl])

C2_CloseStep ==
    (IsCall("close_position") /\ last'.args[1] \in ValidIndices) =>
        LET position == positions[last'.args[1] + 1]
            exit_price == last'.args[2]
            realized == PnlAt(position, exit_price)
        IN  /\ cash' = cash + exit_price * position.quantity + realized
            /\ position.id \notin Ids(positions')
            /\ Occurrences(closed_positions', position.id) = 1
            /\ Len(trade_history') = Len(trade_history) + 1
            /\ LET record == trade_history'[Len(trade_history')]
               IN  /\ record.symbol = position.symbol
                   /\ record.entry_price = position.entry_price
                   /\ record.exit_price = exit_price
                   /\ record.pnl = realized

\* C2 (as claimed): closing any open position by its index credits cash by
\* exit_price*quantity + realized pnl, removes it from the open sequence and
\* leaves it once in closed_positions and once, as a new record, in
\* trade_history.
C2_CloseCreditsAndRecordsOnce == [][C2_CloseStep]_vars

C3_CloseStep ==
    (IsCall("close_position") /\ last'.args[1] \notin ValidIndices) =>
        /\ last'.raised = "IndexError"
        /\ UNCHANGED <<cash, positions, closed_positions, trade_history>>

\* C3 (as claimed): close_position with an index outside 0..len(positions)-1
\* raises IndexError and changes neither cash nor any of the three sequences.
C3_OutOfRangeCloseFails == [][C3_CloseStep]_vars

----------------------------------------------------------------------------
MarkFields == {"current_value", "greeks", "pnl"}

\* the open sequence keeps its objects, in order, and they differ from their
\* old selves in `fields` only
MarkFrame(fields) ==
    /\ Len(positions') = Len(positions)
    /\ \A i \in Indices(positions) : SameExcept(positions[i], positions'[i], fields)

\* max_loss and max_profit of every position the ledger holds are the ones it
\* was constructed with
MaxFieldsFixed ==
    \A list \in {positions, closed_positions} : \A i \in Indices(list) :
        /\ list[i].max_loss = constructed[list[i].id].max_loss
        /\ list[i].max_profit = constructed[list[i].id].max_profit

C4_MarkStepOriginal ==
    /\ IsCall("update_positions") => MarkFrame({"current_value", "pnl"})
    /\ MaxFieldsFixed'

\* C4 (as claimed): update_positions changes no field of a position other than
\* current_value and pnl, and max_loss/max_profit keep their construction
\* values through every ledger operation.
C4_MarkMutatesOnlyValueAndPnl == [][C4_MarkStepOriginal]_vars

C4_MarkStep ==
    /\ IsCall("update_positions") => MarkFrame(MarkFields)
    /\ MaxFieldsFixed'

\* C4 (amended): update_positions changes no field of a position other than
\* current_value, greeks and pnl; max_loss and max_profit keep their
\* construction values through every ledger operation.
C4_MarkMutatesOnlyMarkFields == [][C4_MarkStep]_vars

\* C4 witness: a mark has rewritten current_value, greeks and pnl of an open
\* position, whose max_loss and max_profit are nonzero
C4_Witness ==
    /\ last.op = "update_positions"
    /\ \E i \in Indices(positions) :
          /\ positions[i].greeks = MarketGreeks
          /\ positions[i].current_value = 100
          /\ positions[i].pnl # 0
          /\ positions[i].max_loss > 0

C5_MarkStep ==
    IsCall("update_positions") =>
        LET keys == last'.args[1] IN
        /\ UNCHANGED <<cash, closed_positions, trade_history>>
        /\ Len(positions') = Len(positions)
        /\ \A i \in Indices(positions) :
              /\ positions'[i].id = positions[i].id
              /\ positions[i].symbol \notin keys => positions'[i] = positions[i]
        /\ last'.raised # NoError =>
              \E i \in Indices(positions) : positions[i].symbol \in keys

\* C5: update_positions leaves every open position whose symbol is no key of
\* market_data as it was and raises nothing on its account; it changes
\* neither cash, nor which positions are open and in which order, nor
\* closed_positions, nor trade_history.
C5_StaleMarkTolerated == [][C5_MarkStep]_vars

\* C5 witness: an update has marked a later position while an earlier one,
\* of another symbol, open at the time, still has its construction mark
C5_Witness ==
    /\ last.op = "update_positions"
    /\ last.raised = NoError
    /\ \E i, j \in Indices(positions) :
          /\ i < j
          /\ positions[i].symbol \notin last.args[1]
          /\ positions[i] = constructed[positions[i].id]
          /\ positions[j].symbol \in last.args[1]
          /\ positions[j].current_value = 100

C6_Step ==
    /\ Len(closed_positions') >= Len(closed_positions)
    /\ SubSeq(closed_positions', 1, Len(closed_positions)) = closed_positions
    /\ Ids(closed_positions') \cap Ids(positions') = {}
    /\ \A id \in Ids(closed_positions') : Occurrences(closed_positions', id) = 1

C7_Step ==
    /\ IsCall("update_positions") =>
          \A i \in Indices(positions) :
             (positions'[i] # positions[i]
                \/ (last'.raised = NoError /\ positions[i].symbol \in last'.args[1]))
             => positions'[i].pnl = PnlAt(positions[i], positions'[i].current_value)
    /\ (IsCall("close_position") /\ last'.raised # "IndexError") =>
          LET position == positions[list_at(positions, last'.args[1])]
              realized == PnlAt(position, last'.args[2])
              closed == closed_positions'[Len(closed_positions')]
          IN  /\ closed.id = position.id
              /\ closed.pnl = realized
              /\ position.current_value = last'.args[2] /\ position.pnl # 0
                    => position.pnl = realized
              /\ last'.raised = NoError =>
                    /\ last'.ret = realized
                    /\ trade_history'[Len(trade_history')].pnl = realized

\* C7: the pnl update_positions records for a mark at price p and the pnl
\* close_position returns, writes to the position and to the trade record
\* for exit price p are the same: (p - entry_price)*quantity, negated when
\* position_type is short.
C7_MarkPnlEqualsClosePnl == [][C7_Step]_vars

\* C7 witness: a short position marked at 100 has been closed at 100
C7_Witness ==
    /\ last.op = "close_position"
    /\ last.raised = NoError
    /\ LET closed == closed_positions[Len(closed_positions)]
       IN  /\ closed.position_type = "short"
           /\ closed.current_value = 100
           /\ closed.greeks = MarketGreeks
           /\ last.args[2] = 100
           /\ last.ret = closed.pnl
           /\ last.ret # 0

----------------------------------------------------------------------------
\* the pnls of the closed positions that satisfy `sign`: how many, their sum
ClosedWhere(sign(_)) == { i \in Indices(closed_positions) : sign(closed_positions[i].pnl) }
RECURSIVE SumClosed(_)
SumClosed(S) ==
    IF S = {} THEN 0
    ELSE LET i == The(S) IN closed_positions[i].pnl + SumClosed(S \ {i})

\* r = num / den, for den > 0
IsQuotient(r, num, den) == r.d > 0 /\ r.n * den = num * r.d
\* a non-negative rational rounded to two decimals, in hundredths
Hundredths(r) == (2 * 100 * r.n + r.d) \div (2 * r.d)

\* C8: get_metrics depends on the closed positions only: the all-zero record
\* when there are none, else win_rate = 100*#wins/#closed, avg_win = mean of
\* the positive pnls (0 if none), avg_loss = |mean of the negative pnls| (0 if
\* none), profit_factor = sum(wins)/|sum(losses)|, +infinity without losses;
\* closed pnls 100, -50, 200 give 66.67 %, 150, 50 and 6.
C8_Metrics ==
    last.op = "get_metrics" =>
        LET m == last.ret
            n == Len(closed_positions)
            wins == ClosedWhere(IsWin)
            losses == ClosedWhere(IsLoss)
        IN  /\ m.total_trades = n
            /\ n = 0 => m = ZeroMetrics
            /\ n > 0 =>
                 /\ IsQuotient(m.win_rate, 100 * Cardinality(wins), n)
                 /\ IF wins = {} THEN m.avg_win = RatInt(0)
                    ELSE IsQuotient(m.avg_win, SumClosed(wins), Cardinality(wins))
                 /\ IF losses = {} THEN m.avg_loss = RatInt(0)
                    ELSE IsQuotient(m.avg_loss, -SumClosed(losses), Cardinality(losses))
                 /\ IF losses = {} THEN m.profit_factor = Inf
                    ELSE IsQuotient(m.profit_factor, SumClosed(wins), -SumClosed(losses))
            /\ Pnls(closed_positions) = <<100, -50, 200>> =>
                 /\ Hundredths(m.win_rate) = 6667
                 /\ m.avg_win = RatInt(150)
                 /\ m.avg_loss = RatInt(50)
                 /\ m.profit_factor = RatInt(6)

\* C8 witness: the metrics of the closed pnls 100, -50, 200
C8_Witness ==
    /\ last.op = "get_metrics"
    /\ Pnls(closed_positions) = <<100, -50, 200>>
    /\ last.ret.total_trades = 3

----------------------------------------------------------------------------
\* num / den > limit, for den # 0
QuotientExceeds(num, den, limit) ==
    IF den > 0 THEN num * limit.d > limit.n * den
    ELSE num * limit.d < limit.n * den

\* C9: check_position_allowed takes the first failing check, in the order
\* size, heat, daily loss: position_risk/capital > max_position_size rejects
\* with the size reason whatever current_heat and daily_pnl are; else
\* current_heat + position_risk/capital > max_portfolio_heat rejects with the
\* heat reason; else daily_pnl < 0 with |daily_pnl|/capital > max_daily_loss
\* rejects with the daily-loss reason; else the position is allowed.
C9_OrderedChecks ==
    (last.op = "check_position_allowed" /\ last.args[2] # 0) =>
        LET position_risk == last.args[1]
            capital == last.args[2]
            size_fails == QuotientExceeds(position_risk, capital, max_position_size)
            heat_fails ==
                QuotientExceeds(current_heat.n * capital + position_risk * current_heat.d,
                                current_heat.d * capital, max_portfolio_heat)
            loss_fails == /\ daily_pnl < 0
                          /\ QuotientExceeds(-daily_pnl, capital, max_daily_loss)
            allowed == last.ret[1]
            reason == last.ret[2]
        IN  /\ last.raised = NoError
            /\ size_fails => ~allowed /\ reason = SizeReason
            /\ ~size_fails /\ heat_fails => ~allowed /\ reason = HeatReason
            /\ ~size_fails /\ ~heat_fails /\ loss_fails =>
                  ~allowed /\ reason = DailyLossReason
            /\ allowed <=> ~size_fails /\ ~heat_fails /\ ~loss_fails
            /\ allowed => reason = AllowedReason

\* C9 witness: a position over the size limit is rejected for its size while
\* the heat and daily-loss limits are breached as well
C9_Witness ==
    /\ last.op = "check_position_allowed"
    /\ last.raised = NoError
    /\ last.ret[1] = FALSE
    /\ last.ret[2] = SizeReason
    /\ RatGT(current_heat, max_portfolio_heat)
    /\ daily_pnl < 0
    /\ QuotientExceeds(-daily_pnl, last.args[2], max_daily_loss)

C10_Step ==
    /\ (IsCall("check_position_allowed") \/ IsCall("check_circuit_breaker")) =>
          UNCHANGED <<limits, risk_state>>
    /\ current_heat' # current_heat => IsCall("update_risk_metrics")
    /\ UNCHANGED limits

\* C10: check_position_allowed and check_circuit_breaker change none of
\* current_heat, daily_pnl, peak_equity and the four limits, whatever they
\* return; current_heat changes in update_risk_metrics only.
C10_ChecksAreReadOnly == [][C10_Step]_vars

\* C10 witness: a position of nonzero risk has been accepted and the heat is
\* still the one the last update set
C10_Witness ==
    /\ last.op = "check_position_allowed"
    /\ last.raised = NoError
    /\ last.ret[1] = TRUE
    /\ last.args[1] > 0
    /\ current_heat = Rat(8, 100)
    /\ peak_equity > 0

----------------------------------------------------------------------------
(* RiskManager: peak equity and the circuit breaker *)

C11_Step ==
    /\ peak_equity' >= peak_equity
    /\ (IsCall("update_risk_metrics") /\ last'.raised = NoError) =>
          peak_equity' = Max(peak_equity, last'.args[1])
    /\ peak_equity' >= 0
    /\ peak_equity' # peak_equity => IsCall("update_risk_metrics")

\* C11: peak_equity never decreases; a successful
\* update_risk_metrics(current_equity, ...) leaves it at the maximum of its
\* previous value and current_equity, no other call changes it, and it starts
\* at 0, so it is the maximum of 0 and the equities of the successful updates.
C11_PeakIsHighWaterMark == [][C11_Step]_vars

\* C11 witness: an update with an equity below the peak has succeeded and the
\* peak is still the higher, earlier equity
C11_Witness ==
    /\ last.op = "update_risk_metrics"
    /\ last.raised = NoError
    /\ last.args[1] < peak_equity
    /\ peak_equity = 100

\* (peak_equity - current_equity) / peak_equity > max_drawdown, by cross
\* multiplication (peak_equity > 0)
DrawdownExceeded(current_equity) ==
    /\ peak_equity > 0
    /\ (peak_equity - current_equity) * max_drawdown.d > max_drawdown.n * peak_equity
\* daily_pnl < 0 and |daily_pnl / peak_equity| > max_daily_loss
DailyLossExceeded ==
    /\ peak_equity > 0
    /\ daily_pnl < 0
    /\ (-daily_pnl) * max_daily_loss.d > max_daily_loss.n * peak_equity
BreakerCalled == last.op = "check_circuit_breaker"

\* C12 as stated: with a positive peak, check_circuit_breaker(current_equity)
\* reports triggered exactly when current_equity is more than max_drawdown (as
\* a fraction of peak_equity) below peak_equity.
C12_TriggersExactlyOnDrawdown ==
    (BreakerCalled /\ peak_equity > 0) =>
        (last.ret[1] <=> DrawdownExceeded(last.args[1]))

\* C12, amended: with a positive peak, check_circuit_breaker(current_equity)
\* reports triggered whenever current_equity is more than max_drawdown below
\* peak_equity, and gives the drawdown reason only then; a trigger at a smaller
\* drop is the daily-loss breaker.
C12_DrawdownBreaker ==
    (BreakerCalled /\ peak_equity > 0) =>
        /\ DrawdownExceeded(last.args[1]) => last.ret[1]
        /\ last.ret[2] = DrawdownReason => DrawdownExceeded(last.args[1])
        /\ (last.ret[1] /\ ~DrawdownExceeded(last.args[1])) =>
              last.ret[2] = DailyLossBreakerReason

\* C12 witness: the breaker has tripped on a drawdown of 21% with no daily loss
C12_Witness ==
    /\ BreakerCalled
    /\ peak_equity = 100
    /\ last.args[1] = 79
    /\ daily_pnl >= 0
    /\ last.ret[1]
    /\ last.ret[2] = DrawdownReason

\* C13: check_circuit_breaker decides in order: the drawdown test (peak_equity
\* > 0 and drawdown > max_drawdown) triggers with the drawdown reason even when
\* the daily loss is breached too; else the daily-loss test (peak_equity > 0,
\* daily_pnl < 0, |daily_pnl / peak_equity| > max_daily_loss) triggers with the
\* daily-loss reason; else nothing triggers. It never triggers while
\* peak_equity is 0 and never on daily loss while daily_pnl >= 0.
C13_BreakerOrder ==
    BreakerCalled =>
        /\ <<last.ret[1], last.ret[2]>> =
              IF DrawdownExceeded(last.args[1]) THEN <<TRUE, DrawdownReason>>
              ELSE IF DailyLossExceeded THEN <<TRUE, DailyLossBreakerReason>>
              ELSE <<FALSE, NoBreakerReason>>
        /\ peak_equity = 0 => ~last.ret[1]
        /\ daily_pnl >= 0 => last.ret[2] # DailyLossBreakerReason

\* C13 witness: drawdown and daily loss are both breached and the breaker
\* reports the drawdown
C13_Witness ==
    /\ BreakerCalled
    /\ DrawdownExceeded(last.args[1])
    /\ DailyLossExceeded
    /\ last.ret[1]
    /\ last.ret[2] = DrawdownReason

C20_Step ==
    IsCall("update_risk_metrics") =>
        \/ /\ last'.raised = NoError
           /\ daily_pnl' = last'.args[2]
           /\ current_heat' = Rat(last'.args[3], last'.args[1])
           /\ peak_equity' = Max(peak_equity, last'.args[1])
        \/ /\ last'.raised # NoError
           /\ UNCHANGED risk_state

\* C20: update_risk_metrics is all-or-nothing: a call either sets daily_pnl,
\* current_heat and peak_equity together or, when it fails (current_equity =
\* 0), leaves all three at their previous values.
C20_UpdateIsAllOrNothing == [][C20_Step]_vars

----------------------------------------------------------------------------
(* RiskManager: position sizing *)

SizingCalled == last.op = "calculate_position_size"
\* floor(capital * max_position_size / risk_per_contract), risk_per_contract > 0
FloorOfBudget(capital, risk_per_contract) ==
    (capital * max_position_size.n) \div (max_position_size.d * risk_per_contract)

\* C14: with method fixed_risk calculate_position_size returns 0 when
\* entry_price equals stop_loss and otherwise max(1, floor(capital *
\* max_position_size / |entry_price - stop_loss|)), the mathematical floor,
\* for every capital, zero and negative included.
C14_FixedRiskSize ==
    (SizingCalled /\ last.args[4] = FixedRisk) =>
        /\ last.raised = NoError
        /\ last.ret = IF last.args[2] = last.args[3] THEN 0
                      ELSE Max(1, FloorOfBudget(last.args[1],
                                                Abs(last.args[2] - last.args[3])))

\* C14 witness: a negative capital whose quotient -2/3 truncates to 0 and
\* floors to -1 has been sized at 1 contract
C14_Witness ==
    /\ SizingCalled
    /\ last.args = <<-100, 3, 0, FixedRisk>>
    /\ FloorOfBudget(-100, 3) = -1
    /\ last.ret = 1

\* the gate is asked about the fixed_risk size just returned, for a positive
\* capital and entry_price # stop_loss
GateOfSized ==
    /\ Sized
    /\ last.args[4] = FixedRisk
    /\ last.args[1] > 0
    /\ last.args[2] # last.args[3]
    /\ IsCall("check_position_allowed")
    /\ last'.args = <<SizedRisk, last.args[1]>>
\* risk <= capital * max_position_size
WithinBudget(risk, capital) ==
    risk * max_position_size.d <= capital * max_position_size.n
SizedWithinBudget ==
    /\ WithinBudget(SizedRisk, last.args[1])
    /\ last'.raised = NoError
    /\ last'.ret[2] # SizeReason

C18_StepOriginal == GateOfSized => SizedWithinBudget

\* C18 as stated: for every capital > 0 and entry_price # stop_loss the
\* fixed_risk size n carries risk n * |entry_price - stop_loss| <= capital *
\* max_position_size, and check_position_allowed of that risk is not rejected
\* by the per-position size check.
C18_SizingAgreesWithGate == [][C18_StepOriginal]_vars

C18_Step ==
    (GateOfSized /\ WithinBudget(Abs(last.args[2] - last.args[3]), last.args[1]))
        => SizedWithinBudget

\* C18, amended: the same, for the trades where one contract fits the budget
\* (|entry_price - stop_loss| <= capital * max_position_size); below that the
\* size is forced up to 1 contract.
C18_SizingAgreesWithGateWhenOneFits == [][C18_Step]_vars

\* C18 witness: capital 250 sized at 2 contracts of risk 2 each (budget 5),
\* and the gate has accepted the risk of 4
C18_Witness ==
    /\ last.op = "check_position_allowed"
    /\ last.args = <<4, 250>>
    /\ last.raised = NoError
    /\ last.ret[1]

----------------------------------------------------------------------------
(* Statistics engine: claims *)

RatLE(a, b) == ~RatGT(a, b)
Clamp(x, lo, hi) == IF RatLT(x, lo) THEN lo ELSE IF RatGT(x, hi) THEN hi ELSE x
\* fraction * (p*b - q) / b with b = avg_win / avg_loss, both positive
KellyFormula(p, avg_win, avg_loss, fraction) ==
    LET q == RatSub(RatInt(1), p)
        num == RatSub(RatMul(p, RatInt(avg_win)), RatMul(q, RatInt(avg_loss)))
    IN  RatMul(fraction, RatDiv(num, RatInt(avg_win)))

\* C15: for every win_rate in [0,1], avg_win >= 0, avg_loss >= 0 and
\* fraction, kelly_criterion returns without a numeric error a value in
\* [0, 0.25]: 0 when avg_loss is 0, else clamp(fraction*(p*b - q)/b, 0, 0.25)
\* with b = avg_win/avg_loss.
C15_KellyIsClamped ==
    last.op = "kelly_criterion" =>
        /\ last.raised = NoError
        /\ RatLE(RatInt(0), last.ret) /\ RatLE(last.ret, KellyCap)
        /\ last.args[3] = 0 => last.ret = RatInt(0)
        /\ (last.args[2] > 0 /\ last.args[3] > 0) =>
              last.ret = Clamp(KellyFormula(last.args[1], last.args[2],
                                            last.args[3], last.args[4]),
                               RatInt(0), KellyCap)

\* the returned float is 0
IsZero(ratio) ==
    \/ ratio.kind = "zero"
    \/ ratio.kind = "value" /\ ratio.mean.n = 0
LastExcess == excess_returns(last.args[1], last.args[2])
\* two or more observations, all equal
IsConstantSeries(xs) == Len(xs) >= 2 /\ \A i \in Indices(xs) : xs[i] = xs[1]
NoDownside(xs) == \A i \in Indices(xs) : xs[i].n >= 0

\* C16: the ratio functions return the sentinel 0 on degenerate input:
\* calculate_sharpe_ratio whenever the standard deviation of the excess
\* returns is 0 (a constant series), calculate_sortino_ratio whenever no
\* excess return is below zero.
C16_RatiosReturnZeroSentinel ==
    /\ (last.op = "calculate_sharpe_ratio" /\ IsConstantSeries(LastExcess)) =>
          IsZero(last.ret)
    /\ (last.op = "calculate_sortino_ratio" /\ NoDownside(LastExcess)) =>
          IsZero(last.ret)

MonteCarloReturned == last.op = "monte_carlo_simulation" /\ last.raised = NoError
\* the effective n_trades of the last call
DrawCount == IF last.args[3] = {} THEN Len(last.args[1]) ELSE The(last.args[3])
HistoricalPnls == { last.args[1][i].pnl : i \in Indices(last.args[1]) }

\* C17: every simulated path of monte_carlo_simulation consists of exactly
\* n_trades draws (default: the number of historical trades), each the pnl of
\* some historical trade, and the path's final return is the sum of its draws;
\* with a single-trade history of pnl x and the default n_trades every final
\* return is x, and with n_simulations = 1 mean_return is x. A call with a
\* non-empty history and at least one draw returns.
C17_MonteCarloResamples ==
    /\ MonteCarloReturned =>
          /\ Len(last.ret.simulated) = last.args[2]
          /\ Len(last.ret.final_returns) = last.args[2]
          /\ \A s \in Indices(last.ret.simulated) :
                /\ Len(last.ret.simulated[s]) = DrawCount
                /\ \A k \in Indices(last.ret.simulated[s]) :
                      last.ret.simulated[s][k] \in HistoricalPnls
                /\ last.ret.final_returns[s] = SumSeq(last.ret.simulated[s])
          /\ (Len(last.args[1]) = 1 /\ last.args[3] = {}) =>
                /\ \A s \in Indices(last.ret.final_returns) :
                      last.ret.final_returns[s] = last.args[1][1].pnl
                /\ last.args[2] = 1 =>
                      last.ret.mean_return = RatInt(last.args[1][1].pnl)
    /\ (last.op = "monte_carlo_simulation" /\ last.args[1] # <<>> /\ DrawCount > 0)
          => last.raised = NoError

\* C17 witness: from the history (-50, 100) one path has drawn the second
\* trade twice and ends at 200
C17_Witness ==
    /\ MonteCarloReturned
    /\ last.args = << <<Trade(-50), Trade(100)>>, 1, {} >>
    /\ last.ret.simulated = << <<100, 100>> >>
    /\ last.ret.final_returns = <<200>>
    /\ last.ret.mean_return = RatInt(200)

----------------------------------------------------------------------------
(* RiskManager: gate-then-update protocol *)

\* C19: from a fresh RiskManager and a constant capital C > 0, when every new
\* position of risk p >= 0 is opened only after check_position_allowed(p, C)
\* allowed it and is followed at once by update_risk_metrics(C, daily_pnl,
\* total risk of the open positions), current_heat <= max_portfolio_heat
\* holds after every update, and current_heat is that total over C.
C19_HeatWithinBudget ==
    last.op = "update_risk_metrics" =>
        /\ last.raised = NoError
        /\ RatLE(current_heat, max_portfolio_heat)
        /\ current_heat = Rat(BookRisk, initial_capital)

\* C19 witness: five positions of risk 2% each have been opened and the heat
\* sits exactly at the budget of 10%
C19_Witness ==
    /\ last.op = "update_risk_metrics"
    /\ Len(positions) = 5
    /\ \A i \in Indices(positions) : positions[i].max_loss = 2000
    /\ current_heat = max_portfolio_heat

====
